---- MODULE Spec2Model ----
(***************************************************************************)
(* The review workflow of the patent search assistant page (src/app.py).   *)
(* The page is a script, main(), that is run again from the top after      *)
(* every user interaction; st.session_state is what survives between two   *)
(* runs.  One action of the model is one run of main(), triggered by one   *)
(* click or one text change.  A button reads True only in the run its own  *)
(* click triggered.                                                        *)
(*                                                                         *)
(* Texts of keywords and of the edit text areas are sequences of           *)
(* one-character strings, so that split(",") and strip() are computed.     *)
(***************************************************************************)
EXTENDS Naturals, Sequences, FiniteSets, TLC

VARIABLES
    session_state,    \* st.session_state: the fields of init_session_state, plus "editing" once set
    input_text,       \* the value of the "Describe your patent idea" text area
    page,             \* the widgets and panels the last run of main() rendered
    exception,        \* the call that raised and ended the last run, or "none"
    edit_inputs,      \* the values of the three edit_<field> text areas, None when not rendered
    edited_keywords,  \* the local edited_keywords of the last run (line 130), None when not built
    calls,            \* the texts extract_keywords was invoked with so far
    last              \* the interaction that triggered the last run, and the one before it

vars == <<session_state, input_text, page, exception, edit_inputs, edited_keywords, calls, last>>

\* ------------------------------------------------------------------ bounds

\* Longest text typed into an edit text area (SpecParse).
MaxLen == 4

\* ------------------------------------------------------------- python values

None == [none |-> TRUE]

\* dict.get(key): the value, None when the key is absent.
Get(d, key) == IF key \in DOMAIN d THEN d[key] ELSE None

\* st.session_state.<key> = value (creates the key when missing).
SetAttr(s, key, value) == [k \in DOMAIN s \cup {key} |-> IF k = key THEN value ELSE s[k]]

\* Truth value of a str used as a condition: only "" is false.
TruthyText(t) == t /= ""

\* A st.button(label) call: True only in the run triggered by a click on it.
Button(label, clicked) == clicked = label

Whitespace == {" ", "\n"}

IsSpace(c) == c \in Whitespace

\* ------------------------------------------------------------ text functions

\* str.split(","): the pieces between the commas; a text without comma is one piece.
RECURSIVE Split(_)
Split(s) ==
    IF \A i \in 1..Len(s) : s[i] /= ","
    THEN <<s>>
    ELSE LET i == CHOOSE i \in 1..Len(s) : s[i] = "," /\ \A j \in 1..(i - 1) : s[j] /= ","
         IN <<SubSeq(s, 1, i - 1)>> \o Split(SubSeq(s, i + 1, Len(s)))

RECURSIVE LStrip(_)
LStrip(s) == IF Len(s) > 0 /\ IsSpace(s[1]) THEN LStrip(Tail(s)) ELSE s

RECURSIVE RStrip(_)
RStrip(s) == IF Len(s) > 0 /\ IsSpace(s[Len(s)]) THEN RStrip(SubSeq(s, 1, Len(s) - 1)) ELSE s

\* A strip() that leaves trailing whitespace.
StripLeadingOnly(s) == LStrip(s)

\* str.strip()
Strip(s) == RStrip(LStrip(s))

\* [f(x) for x in xs]
RECURSIVE MapStrip(_)
MapStrip(xs) == IF xs = <<>> THEN <<>> ELSE <<Strip(Head(xs))>> \o MapStrip(Tail(xs))

NonBlank(k) == Len(Strip(k)) > 0

\* [k.strip() for k in new_input.split(",") if k.strip()]
ParseKeywords(new_input) == MapStrip(SelectSeq(Split(new_input), NonBlank))

\* ", ".join(keywords)
RECURSIVE Join(_)
Join(keywords) ==
    IF keywords = <<>> THEN <<>>
    ELSE IF Len(keywords) = 1 THEN keywords[1]
    ELSE keywords[1] \o <<",", " ">> \o Join(Tail(keywords))

\* The fields of seed_keywords.dict(), and of the concept matrix.
Categories == {"problem_purpose", "object_system", "environment_field"}

\* Lines 130-141: one text area per field of seed_keywords, pre-filled with the
\* joined keywords; the value in each area is parsed back into a list.
CurrentStrs(seed_keywords) == [field \in DOMAIN seed_keywords |-> Join(seed_keywords[field])]

EditedKeywords(new_inputs) == [field \in DOMAIN new_inputs |-> ParseKeywords(new_inputs[field])]

\* ---------------------------------------------------- the extractor (external)

\* What CoreConceptExtractor.extract_keywords hands back: its code is not in
\* src/; the contract is a mapping with concept_matrix and seed_keywords and an
\* optional final_url list.  A failing call raises, or returns no mapping at all.
ConceptMatrices ==
    { [problem_purpose |-> "removing contaminants", object_system |-> "filter",
       environment_field |-> "residential water systems"],
      [problem_purpose |-> "noise reduction", object_system |-> "fan",
       environment_field |-> "server rooms"] }

SeedKeywordSets ==
    { [problem_purpose |-> << <<"a">> >>,
       object_system |-> << <<"b">>, <<"a", " ", "b">> >>,
       environment_field |-> << <<"a">>, <<"a">> >>],
      [problem_purpose |-> << <<"b", "b">> >>,
       object_system |-> << >>,
       environment_field |-> << <<"a">> >>] }

SearchResults == << [url |-> "https://patents.example/US123", user_scenario |-> 87, user_problem |-> 92] >>

ExtractionResults ==
    LET m1 == CHOOSE m \in ConceptMatrices : m.object_system = "filter"
        m2 == CHOOSE m \in ConceptMatrices : m.object_system = "fan"
        k1 == CHOOSE k \in SeedKeywordSets : k.object_system /= <<>>
        k2 == CHOOSE k \in SeedKeywordSets : k.object_system = <<>>
    IN { [concept_matrix |-> m1, seed_keywords |-> k1],
         [concept_matrix |-> m1, seed_keywords |-> k1, final_url |-> SearchResults],
         [concept_matrix |-> m2, seed_keywords |-> k2, final_url |-> <<>>],
         [concept_matrix |-> m2, seed_keywords |-> k2, final_url |-> SearchResults] }

ExtractorOutcomes ==
    {[kind |-> "raise"], [kind |-> "return", value |-> None]}
        \cup {[kind |-> "return", value |-> r] : r \in ExtractionResults}

\* ----------------------------------------------------------------- inputs

\* Values of the main text area: empty, whitespace only, a description.
InputTexts == {"", " ", "A self-cleaning water filter for home use"}

IsBlank(t) == t \in {"", " "}

\* Values of the "Feedback for regeneration" text area.
RejectTexts == {"", "too broad"}

\* --------------------------------------------------------------- main()

\* init_session_state on a fresh session.
InitialSessionState ==
    [extractor |-> "CoreConceptExtractor", current_state |-> None, concept_matrix |-> None,
     seed_keywords |-> None, keywords_approved |-> FALSE, feedback |-> None,
     edited_keywords |-> None]

\* Lines 89-96 without the assignment of line 94.
StartAnalysisDropsSeedKeywords(s, start_button, text, outcome) ==
    IF start_button /\ TruthyText(text)
    THEN IF outcome.kind = "raise"
         THEN [session_state |-> s, exception |-> "extract_keywords", called |-> TRUE]
         ELSE LET results == outcome.value
                  s1 == SetAttr(s, "current_state", results)
              IN IF results = None
                 THEN [session_state |-> s1, exception |-> "results.get", called |-> TRUE]
                 ELSE [session_state |-> SetAttr(s1, "concept_matrix", Get(results, "concept_matrix")),
                       exception |-> "none", called |-> TRUE]
    ELSE [session_state |-> s, exception |-> "none", called |-> FALSE]

\* Lines 89-96: "if start_button and input_text": call the extractor, store the
\* result, then read concept_matrix and seed_keywords out of it.  An exception
\* ends the run where it is raised: the assignments before it stay.
StartAnalysis(s, start_button, text, outcome) ==
    IF start_button /\ TruthyText(text)
    THEN IF outcome.kind = "raise"
         THEN [session_state |-> s, exception |-> "extract_keywords", called |-> TRUE]
         ELSE LET results == outcome.value
                  s1 == SetAttr(s, "current_state", results)
              IN IF results = None
                 THEN [session_state |-> s1, exception |-> "results.get", called |-> TRUE]
                 ELSE LET s2 == SetAttr(s1, "concept_matrix", Get(results, "concept_matrix"))
                          s3 == SetAttr(s2, "seed_keywords", Get(results, "seed_keywords"))
                      IN [session_state |-> s3, exception |-> "none", called |-> TRUE]
    ELSE [session_state |-> s, exception |-> "none", called |-> FALSE]

\* Lines 99-148 with a reject handler that also withdraws the approval.
FeedbackActionsRejectClearsApproval(s, clicked, reject_feedback) ==
    IF s.concept_matrix /= None /\ s.seed_keywords /= None
    THEN [session_state |-> IF Button("approve", clicked)
                            THEN SetAttr(SetAttr(s, "keywords_approved", TRUE), "feedback", [action |-> "approve"])
                            ELSE IF Button("reject", clicked)
                            THEN SetAttr(s, "keywords_approved", FALSE)
                            ELSE IF Button("edit", clicked) THEN SetAttr(s, "editing", TRUE) ELSE s,
          widgets |-> {"concept_matrix", "seed_keywords", "approve", "reject", "edit"}
                        \cup (IF Button("reject", clicked) THEN {"reject_feedback", "submit"} ELSE {})
                        \cup (IF Button("edit", clicked) THEN {"edit_fields", "save"} ELSE {}),
          edit_inputs |-> IF Button("edit", clicked) THEN CurrentStrs(s.seed_keywords) ELSE None,
          edited_keywords |-> IF Button("edit", clicked)
                              THEN EditedKeywords(CurrentStrs(s.seed_keywords)) ELSE None]
    ELSE [session_state |-> s, widgets |-> {}, edit_inputs |-> None, edited_keywords |-> None]

\* Lines 99-148 with the approve handler also running on a click on Edit.
FeedbackActionsEditApproves(s, clicked, reject_feedback) ==
    IF s.concept_matrix /= None /\ s.seed_keywords /= None
    THEN [session_state |-> IF Button("approve", clicked) \/ Button("edit", clicked)
                            THEN SetAttr(SetAttr(s, "keywords_approved", TRUE), "feedback", [action |-> "approve"])
                            ELSE s,
          widgets |-> {"concept_matrix", "seed_keywords", "approve", "reject", "edit"}
                        \cup (IF Button("reject", clicked) THEN {"reject_feedback", "submit"} ELSE {})
                        \cup (IF Button("edit", clicked) THEN {"edit_fields", "save"} ELSE {}),
          edit_inputs |-> IF Button("edit", clicked) THEN CurrentStrs(s.seed_keywords) ELSE None,
          edited_keywords |-> IF Button("edit", clicked)
                              THEN EditedKeywords(CurrentStrs(s.seed_keywords)) ELSE None]
    ELSE [session_state |-> s, widgets |-> {}, edit_inputs |-> None, edited_keywords |-> None]

\* Lines 99-148: the matrix, the keywords and the three action buttons, shown
\* while both concept_matrix and seed_keywords are set.  The secondary widgets
\* (the feedback area and Submit Feedback, the edit areas and Save Edited
\* Keywords) are created inside the "if st.button(...)" of their primary button.
FeedbackActions(s, clicked, reject_feedback) ==
    IF s.concept_matrix /= None /\ s.seed_keywords /= None
    THEN LET \* lines 110-113
             s1 == IF Button("approve", clicked)
                   THEN SetAttr(SetAttr(s, "keywords_approved", TRUE), "feedback", [action |-> "approve"])
                   ELSE s
             \* lines 116-123
             s2 == IF Button("reject", clicked)
                   THEN IF Button("submit", clicked)
                        THEN SetAttr(s1, "feedback", [action |-> "reject", feedback |-> reject_feedback])
                        ELSE s1
                   ELSE s1
             \* lines 126-141: a text area created in this run holds its default value
             new_inputs == CurrentStrs(s2.seed_keywords)
             edited == EditedKeywords(new_inputs)
             \* lines 127, 143-148
             s3 == IF Button("edit", clicked)
                   THEN LET e == SetAttr(s2, "editing", TRUE)
                        IN IF Button("save", clicked)
                           THEN SetAttr(e, "feedback", [action |-> "edit", edited_keywords |-> edited])
                           ELSE e
                   ELSE s2
         IN [session_state |-> s3,
             widgets |-> {"concept_matrix", "seed_keywords", "approve", "reject", "edit"}
                           \cup (IF Button("reject", clicked) THEN {"reject_feedback", "submit"} ELSE {})
                           \cup (IF Button("edit", clicked) THEN {"edit_fields", "save"} ELSE {}),
             edit_inputs |-> IF Button("edit", clicked) THEN new_inputs ELSE None,
             edited_keywords |-> IF Button("edit", clicked) THEN edited ELSE None]
    ELSE [session_state |-> s, widgets |-> {}, edit_inputs |-> None, edited_keywords |-> None]

\* Lines 150-159: "keywords_approved and current_state.get('final_url')": the
\* right operand is evaluated only when the left one is true, and .get on None
\* raises AttributeError.  A non-empty list is true.
DisplayFinalResults(s) ==
    IF ~s.keywords_approved
    THEN [widgets |-> {}, exception |-> "none"]
    ELSE IF s.current_state = None
    THEN [widgets |-> {}, exception |-> "current_state.get"]
    ELSE IF "final_url" \in DOMAIN s.current_state /\ Len(s.current_state.final_url) > 0
    THEN [widgets |-> {"results"}, exception |-> "none"]
    ELSE [widgets |-> {}, exception |-> "none"]

\* Lines 66-159: one run of main().  The input area and the start button are
\* rendered first; an exception ends the run and is shown in place of the rest.
Main(s, clicked, text, outcome, reject_feedback) ==
    LET a == StartAnalysis(s, Button("start", clicked), text, outcome)
    IN IF a.exception /= "none"
       THEN [session_state |-> a.session_state, page |-> {"input_text", "start", "exception"},
             exception |-> a.exception, called |-> a.called,
             edit_inputs |-> None, edited_keywords |-> None]
       ELSE LET f == FeedbackActions(a.session_state, clicked, reject_feedback)
                r == DisplayFinalResults(f.session_state)
            IN [session_state |-> f.session_state,
                page |-> {"input_text", "start"} \cup f.widgets \cup r.widgets
                           \cup (IF r.exception /= "none" THEN {"exception"} ELSE {}),
                exception |-> r.exception, called |-> a.called,
                edit_inputs |-> f.edit_inputs, edited_keywords |-> f.edited_keywords]

\* ----------------------------------------------------------------- actions

\* How the extractor call of a run ended: "none" when it was not called.
OutcomeOf(run, outcome) ==
    IF ~run.called THEN "none"
    ELSE IF outcome.kind = "raise" THEN "raise"
    ELSE IF outcome.value = None THEN "unusable"
    ELSE "ok"

\* One interaction: the run of main() it triggers and what the run leaves.
Rerun(clicked, text, outcome, reject_feedback) ==
    LET run == Main(session_state, clicked, text, outcome, reject_feedback)
    IN /\ session_state' = run.session_state
       /\ input_text' = text
       /\ page' = run.page
       /\ exception' = run.exception
       /\ edit_inputs' = run.edit_inputs
       /\ edited_keywords' = run.edited_keywords
       /\ calls' = IF run.called THEN calls \cup {text} ELSE calls
       /\ last' = [click |-> clicked, before |-> last.click,
                   outcome |-> OutcomeOf(run, outcome), text |-> reject_feedback]

\* The state after the first run of main() in a new session.
Init ==
    /\ session_state = InitialSessionState
    /\ input_text = ""
    /\ page = {"input_text", "start"}
    /\ exception = "none"
    /\ edit_inputs = None
    /\ edited_keywords = None
    /\ calls = {}
    /\ last = [click |-> "none", before |-> "none", outcome |-> "none", text |-> ""]

\* The user changes the text of the main text area: a run with no button clicked.
TypeInput == \E t \in InputTexts : t /= input_text /\ Rerun("none", t, [kind |-> "raise"], "")

\* The user changes the text of a secondary text area (feedback, edit fields).
TypeSecondary ==
    /\ page \cap {"reject_feedback", "edit_fields"} /= {}
    /\ Rerun("none", input_text, [kind |-> "raise"], "")

ClickStart == \E o \in ExtractorOutcomes : Rerun("start", input_text, o, "")

ClickApprove == "approve" \in page /\ Rerun("approve", input_text, [kind |-> "raise"], "")

ClickReject == "reject" \in page /\ Rerun("reject", input_text, [kind |-> "raise"], "")

ClickSubmit ==
    /\ "submit" \in page
    /\ \E t \in RejectTexts : Rerun("submit", input_text, [kind |-> "raise"], t)

ClickEdit == "edit" \in page /\ Rerun("edit", input_text, [kind |-> "raise"], "")

ClickSave == "save" \in page /\ Rerun("save", input_text, [kind |-> "raise"], "")

Next ==
    \/ TypeInput
    \/ TypeSecondary
    \/ ClickStart
    \/ ClickApprove
    \/ ClickReject
    \/ ClickSubmit
    \/ ClickEdit
    \/ ClickSave

Spec == Init /\ [][Next]_vars

\* ------------------------------------------- the keyword parser on typed text

Alphabet == {"a", "b", ",", " ", "\n"}

\* The text of the edit example: "a, b ,, c".
ExampleInput == <<"a", ",", " ", "b", " ", ",", ",", " ", "c">>

TypedTexts == UNION {[1..n -> Alphabet] : n \in 0..MaxLen} \cup {ExampleInput}

\* The edit text areas hold a text the user typed.
InitParse ==
    /\ session_state = InitialSessionState
    /\ input_text = ""
    /\ page = {"input_text", "start"}
    /\ exception = "none"
    /\ edit_inputs \in {[field \in Categories |-> t] : t \in TypedTexts}
    /\ edited_keywords = None
    /\ calls = {}
    /\ last = [click |-> "none", before |-> "none", outcome |-> "none", text |-> ""]

\* Lines 134-141 on the typed texts: edited_keywords is built from them.
ParseEditedInput ==
    /\ edited_keywords = None
    /\ edited_keywords' = EditedKeywords(edit_inputs)
    /\ UNCHANGED <<session_state, input_text, page, exception, edit_inputs, calls, last>>

NextParse == ParseEditedInput

SpecParse == InitParse /\ [][NextParse]_vars

\* ------------------------------------------------------------------ claims

Present(v) == v /= None

\* The precondition of the final-results panel.
HasFinalResults ==
    /\ session_state.keywords_approved
    /\ session_state.current_state /= None
    /\ "final_url" \in DOMAIN session_state.current_state
    /\ Len(session_state.current_state.final_url) > 0

\* C1: concept_matrix and seed_keywords are both set or both unset in every
\* reachable state, and both set after a run whose extractor call returned a result.
C1_BothOrNeither ==
    /\ Present(session_state.concept_matrix) <=> Present(session_state.seed_keywords)
    /\ (last.click = "start" /\ last.outcome = "ok") =>
          /\ Present(session_state.concept_matrix)
          /\ Present(session_state.seed_keywords)

C1_Witness ==
    /\ last.click = "start"
    /\ last.outcome = "ok"
    /\ session_state.concept_matrix = session_state.current_state.concept_matrix
    /\ session_state.seed_keywords = session_state.current_state.seed_keywords

\* C2: a Start Analysis whose extractor call fails (it raises, or returns no
\* usable result) leaves every session field as it was.
C2_FailedStartKeepsState ==
    [][(last'.click = "start" /\ last'.outcome \in {"raise", "unusable"})
          => session_state' = session_state]_vars

\* C3: when the precondition of the final results fails, the last run rendered
\* no results and its final-results step raised nothing.
C3_NoResultsNoError ==
    ~HasFinalResults => ("results" \notin page /\ exception /= "current_state.get")

\* C4: after a successful Start Analysis the stored matrix and keywords are the
\* returned ones and keywords_approved is false.
C4_StartResetsApproval ==
    (last.click = "start" /\ last.outcome = "ok") =>
        /\ session_state.concept_matrix = session_state.current_state.concept_matrix
        /\ session_state.seed_keywords = session_state.current_state.seed_keywords
        /\ ~session_state.keywords_approved

\* C6: a Start Analysis with an empty or whitespace-only text does not invoke
\* the extractor and changes no session field.
C6_BlankInputRejected ==
    [][(last'.click = "start" /\ IsBlank(input_text'))
          => (calls' = calls /\ session_state' = session_state)]_vars

\* C7: keywords_approved starts false and turns true only in a run triggered by
\* Approve; every such run starts with matrix and keywords present and ends
\* with keywords_approved true and feedback {action: approve}.
C7_ApprovedOnlyByApprove ==
    /\ ~session_state.keywords_approved
    /\ [][/\ (~session_state.keywords_approved /\ session_state'.keywords_approved)
                => last'.click = "approve"
          /\ last'.click = "approve" =>
                /\ Present(session_state.concept_matrix)
                /\ Present(session_state.seed_keywords)
                /\ session_state'.keywords_approved
                /\ session_state'.feedback = [action |-> "approve"]]_vars

C7_Witness ==
    /\ last.click = "approve"
    /\ last.before = "approve"
    /\ session_state.keywords_approved
    /\ session_state.feedback = [action |-> "approve"]

\* The typed text without whitespace, and without the commas that separate nothing.
NoSpaces(s) == SelectSeq(s, LAMBDA c : ~IsSpace(c))

SeparatesTokens(t, i) ==
    /\ i > 1
    /\ t[i - 1] /= ","
    /\ \E j \in (i + 1)..Len(t) : t[j] /= ","

RECURSIVE Squeeze(_, _)
Squeeze(t, i) ==
    IF i > Len(t) THEN <<>>
    ELSE (IF t[i] /= "," \/ SeparatesTokens(t, i) THEN <<t[i]>> ELSE <<>>) \o Squeeze(t, i + 1)

RECURSIVE Flatten(_)
Flatten(tokens) ==
    IF tokens = <<>> THEN <<>>
    ELSE IF Len(tokens) = 1 THEN NoSpaces(tokens[1])
    ELSE NoSpaces(tokens[1]) \o <<",">> \o Flatten(Tail(tokens))

IsPieceOf(token, text) ==
    \E a \in 1..Len(text) : \E b \in a..Len(text) : SubSeq(text, a, b) = token

\* C8: each edited text maps to its comma-separated pieces, trimmed, the empty
\* ones dropped, in order and with duplicates: no keyword is empty, starts or
\* ends with whitespace or holds a comma, each is a piece of the text, and the
\* keywords read in order are the text's tokens; "a, b ,, c" gives a, b, c.
C8_ParsedKeywords ==
    edited_keywords /= None =>
        /\ DOMAIN edited_keywords = DOMAIN edit_inputs
        /\ \A field \in DOMAIN edited_keywords :
              LET text == edit_inputs[field]
                  keywords == edited_keywords[field]
              IN /\ \A i \in 1..Len(keywords) :
                        /\ Len(keywords[i]) > 0
                        /\ ~IsSpace(keywords[i][1])
                        /\ ~IsSpace(keywords[i][Len(keywords[i])])
                        /\ \A j \in 1..Len(keywords[i]) : keywords[i][j] /= ","
                        /\ IsPieceOf(keywords[i], text)
                 /\ Flatten(keywords) = Squeeze(NoSpaces(text), 1)
                 /\ text = ExampleInput => keywords = << <<"a">>, <<"b">>, <<"c">> >>

C8_Witness ==
    /\ edit_inputs /= None
    /\ edited_keywords /= None
    /\ edit_inputs.problem_purpose = ExampleInput
    /\ edited_keywords.problem_purpose = << <<"a">>, <<"b">>, <<"c">> >>

\* C9: a run triggered by Reject & Regenerate, Submit Feedback, Edit Keywords or
\* Save Edited Keywords leaves every field of the session but feedback as it
\* was, and does not invoke the extractor.
C9_FeedbackOnly ==
    [][last'.click \in {"reject", "submit", "edit", "save"} =>
          /\ \A k \in DOMAIN InitialSessionState \ {"feedback"} : session_state'[k] = session_state[k]
          /\ calls' = calls]_vars

C9_Witness ==
    /\ last.before = "reject"
    /\ last.click = "submit"
    /\ session_state.keywords_approved
    /\ Present(session_state.seed_keywords)

\* C10: after Reject & Regenerate then Submit Feedback with text t, feedback is
\* {action: reject, feedback: t}; after Edit Keywords then Save Edited Keywords,
\* feedback is {action: edit, edited_keywords: the parsed map}.
C10_TwoClickFeedback ==
    /\ (last.before = "reject" /\ last.click = "submit") =>
          session_state.feedback = [action |-> "reject", feedback |-> last.text]
    /\ (last.before = "edit" /\ last.click = "save") =>
          session_state.feedback =
              [action |-> "edit",
               edited_keywords |-> EditedKeywords(CurrentStrs(session_state.seed_keywords))]

====
